---- MODULE Spec2Model ----
(***************************************************************************)
(* Movie recommender: the rating store and movie catalog (SQLAlchemy       *)
(* tables `ratings` and `movies`), the rating endpoints that write them,   *)
(* and the recommendation operations (popularity, collaborative,           *)
(* content-based, similar-movies, hybrid) that read them.                  *)
(*                                                                         *)
(* Numbers: a rating value 1.0 .. 5.0 is the integer 1 .. 5; an average or *)
(* a predicted rating is an exact fraction [num, den] in lowest terms; a   *)
(* hybrid score 0.6 * (1 - i/n) is the fraction 6 * (n - i) / (10 * n).    *)
(***************************************************************************)
EXTENDS Integers, Sequences, FiniteSets, TLC

VARIABLES
    ratings,    \* table `ratings`: a set of rows [id, user_id, movie_id, rating]
    movies,     \* table `movies`: id -> [average_rating, total_ratings]
    writes,     \* number of committed rating writes so far
    last,       \* the last request served: its arguments and its response
    run,        \* a collaborative call between its queries, if any
    procs       \* the write requests in progress in other workers

vars == <<ratings, movies, writes, last, run, procs>>

----------------------------------------------------------------------------
\* Bounds of the model.
NumUsers == 3
NumMovies == 7
MaxLimit == 2
MaxWrites == 2
MaxRatingIdInput == 3
MaxMovieInput == 2
NumWorkers == 2

\* Program constants.
MinRating == 1
MaxRating == 5
MinRatingsPerUser == 5
DefaultPageLimit == 100
MaxComponents == 50
CollabWeight == 6
ContentWeight == 4
WeightScale == 10
NULL == 0

Users == 1..NumUsers
Movies == 1..NumMovies
UnknownMovie == NumMovies + 1
Limits == 0..MaxLimit

----------------------------------------------------------------------------
\* Arithmetic helpers: exact fractions stand for Python floats.

Abs(x) == IF x < 0 THEN -x ELSE x

RECURSIVE GCD(_, _)
GCD(a, b) == IF b = 0 THEN a ELSE GCD(b, a % b)

Frac(n, d) ==
    LET g == GCD(Abs(n), Abs(d))
    IN [num |-> n \div g, den |-> d \div g]

FracZero == [num |-> 0, den |-> 1]

FracLess(a, b) == a.num * b.den < b.num * a.den

FracAdd(a, b) == Frac(a.num * b.den + b.num * a.den, a.den * b.den)

\* sum of f[x] over the finite set S
RECURSIVE SumOver(_, _)
SumOver(S, f) ==
    IF S = {} THEN 0
    ELSE LET x == CHOOSE y \in S : TRUE
         IN f[x] + SumOver(S \ {x}, f)

Min(a, b) == IF a < b THEN a ELSE b

----------------------------------------------------------------------------
\* The seeded store: load_sample_ratings gives every sample user 3 to 7
\* ratings with values 2.0 .. 5.0, ids in insertion order (user by user), and
\* never touches the movies' aggregate stats. A user registered afterwards
\* has no rating.

SeedRated(s, u) ==
    IF u = 1 THEN 1..5
    ELSE IF u = 2 THEN (IF s = 2 THEN 5..7 ELSE 3..7)
    ELSE IF u = 3 /\ s = 3 THEN {1, 2, 3, 6, 7}
    ELSE {}

Seeds == {1, 2, 3}

SeedValue(u, m) == 2 + ((u + m) % 4)

SeedId(s, u, m) ==
    LET before == [v \in Users |-> Cardinality(SeedRated(s, v))]
    IN SumOver({v \in Users : v < u}, before)
       + Cardinality({k \in SeedRated(s, u) : k <= m})

load_sample_ratings(s) ==
    UNION {{[id |-> SeedId(s, u, m), user_id |-> u, movie_id |-> m,
             rating |-> SeedValue(u, m)] : m \in SeedRated(s, u)} : u \in Users}

----------------------------------------------------------------------------
\* crud/rating.py and crud/movie.py: queries.

get_rating(rt, rating_id) == {r \in rt : r.id = rating_id}

get_user_rating_for_movie(rt, user_id, movie_id) ==
    {r \in rt : r.user_id = user_id /\ r.movie_id = movie_id}

get_movie(mv, movie_id) == movie_id \in DOMAIN mv

\* update_movie_rating_stats whose aggregate query lacks the movie filter.
update_movie_rating_stats_AllRows(rt, mv, movie_id) ==
    LET total == Cardinality(rt)
        sum == SumOver(rt, [r \in rt |-> r.rating])
        avg == IF total > 0 /\ sum # 0 THEN Frac(sum, total) ELSE FracZero
    IN IF get_movie(mv, movie_id)
       THEN [mv EXCEPT ![movie_id] =
                [average_rating |-> avg, total_ratings |-> total]]
       ELSE mv

\* func.avg / func.count over the movie's rows, as the two assignments
\* convert them.
rating_stats(rt, movie_id) ==
    LET rows == {r \in rt : r.movie_id = movie_id}
        total == Cardinality(rows)
        sum == SumOver(rows, [r \in rows |-> r.rating])
        avg == IF total > 0 /\ sum # 0 THEN Frac(sum, total) ELSE FracZero
    IN [average_rating |-> avg, total_ratings |-> total]

\* get_movie, the two assignments and the commit, with the aggregate `stats`
\* read before.
write_rating_stats(mv, movie_id, stats) ==
    IF get_movie(mv, movie_id) THEN [mv EXCEPT ![movie_id] = stats] ELSE mv

\* The aggregate query, then the assignments.
update_movie_rating_stats(rt, mv, movie_id) ==
    write_rating_stats(mv, movie_id, rating_stats(rt, movie_id))

----------------------------------------------------------------------------
\* schemas/rating.py: request validation and the fields a schema keeps.

\* Field(ge=1.0) with the upper bound left out.
ValidRating_NoUpper(v) == MinRating <= v

\* Field(..., ge=1.0, le=5.0)
ValidRating(v) == MinRating <= v /\ v <= MaxRating

RatingCreateFields == {"rating", "movie_id"}

\* A RatingCreate that declares user_id as well.
RatingCreate_WithUserId(data) == data

\* RatingCreate(**data): pydantic keeps the declared fields and ignores the rest.
RatingCreate(data) == [f \in (DOMAIN data) \cap RatingCreateFields |-> data[f]]

NextRatingId(rt) ==
    IF rt = {} THEN 1
    ELSE 1 + (CHOOSE i \in {r.id : r \in rt} : \A r \in rt : r.id <= i)

\* Rating(**rating.dict()): a column the payload does not carry is None.
NewRating(rt, payload) ==
    [id |-> NextRatingId(rt),
     user_id |-> IF "user_id" \in DOMAIN payload THEN payload["user_id"] ELSE NULL,
     movie_id |-> payload["movie_id"],
     rating |-> payload["rating"]]

\* db.commit() of an INSERT: ratings.user_id is nullable=False.
InsertAccepted(row) == row.user_id # NULL

\* crud create_rating: insert, commit, then recompute the movie's stats.
create_rating(rt, mv, payload) ==
    LET row == NewRating(rt, payload)
    IN IF InsertAccepted(row)
       THEN [ok |-> TRUE, ratings |-> rt \cup {row},
             movies |-> update_movie_rating_stats(rt \cup {row}, mv, row.movie_id)]
       ELSE [ok |-> FALSE, ratings |-> rt, movies |-> mv]

\* update_rating that adds the changed row and keeps the old one.
update_rating_KeepsOld(rt, mv, rating_id, has_rating, value) ==
    LET found == get_rating(rt, rating_id)
    IN IF found = {}
       THEN [ok |-> FALSE, raised |-> FALSE, ratings |-> rt, movies |-> mv]
       ELSE LET old == CHOOSE r \in found : TRUE
                new == [old EXCEPT !.id = NextRatingId(rt),
                                   !.rating = IF has_rating THEN value ELSE @]
                rt2 == rt \cup {new}
            IN [ok |-> TRUE, raised |-> FALSE, ratings |-> rt2,
                movies |-> update_movie_rating_stats(rt2, mv, new.movie_id)]

\* db.commit() of an UPDATE: ratings.rating is nullable=False.
UpdateAccepted(row) == row.rating # NULL

\* crud update_rating: setattr for every field that was set, commit, stats.
\* `raised` says that the commit failed and the exception left the function.
update_rating(rt, mv, rating_id, has_rating, value) ==
    LET found == get_rating(rt, rating_id)
    IN IF found = {}
       THEN [ok |-> FALSE, raised |-> FALSE, ratings |-> rt, movies |-> mv]
       ELSE LET old == CHOOSE r \in found : TRUE
                new == IF has_rating THEN [old EXCEPT !.rating = value] ELSE old
                rt2 == (rt \ {old}) \cup {new}
            IN IF UpdateAccepted(new)
               THEN [ok |-> TRUE, raised |-> FALSE, ratings |-> rt2,
                     movies |-> update_movie_rating_stats(rt2, mv, new.movie_id)]
               ELSE [ok |-> FALSE, raised |-> TRUE, ratings |-> rt, movies |-> mv]

\* crud delete_rating: delete, commit, stats.
delete_rating(rt, mv, rating_id) ==
    LET found == get_rating(rt, rating_id)
    IN IF found = {}
       THEN [ok |-> FALSE, ratings |-> rt, movies |-> mv]
       ELSE LET old == CHOOSE r \in found : TRUE
                rt2 == rt \ {old}
            IN [ok |-> TRUE, ratings |-> rt2,
                movies |-> update_movie_rating_stats(rt2, mv, old.movie_id)]

----------------------------------------------------------------------------
\* The request being served and its response, kept in `last` until the
\* response is delivered.

Response(op, status, user, arg, n, result, path) ==
    [op |-> op, status |-> status, user |-> user, arg |-> arg, n |-> n,
     result |-> result, path |-> path, fault |-> FALSE, cause |-> "none",
     sim |-> <<>>, collab |-> <<>>, content |-> <<>>]

NoRequest == Response("none", 0, NULL, NULL, 0, <<>>, "none")

Idle == last.op = "none"

RatingInputs == {MinRating - 1, MinRating, MaxRating, MaxRating + 1}

MissingRatingId == 1 + Cardinality(UNION {load_sample_ratings(s) : s \in Seeds})

RatingIdInputs == (1..MaxRatingIdInput) \cup {MissingRatingId}

MovieInputs == 1..MaxMovieInput

----------------------------------------------------------------------------
\* api/v1/ratings.py: the three write endpoints, one request each.

Rejected(status, rt, mv) ==
    [status |-> status, ratings |-> rt, movies |-> mv, movie |-> NULL]

\* rating.dict() with rating_data["user_id"] = current_user.id
rating_data(caller, movie_id, value) ==
    [f \in {"rating", "movie_id", "user_id"} |->
        IF f = "rating" THEN value ELSE IF f = "movie_id" THEN movie_id ELSE caller]

\* POST /ratings/
create_rating_endpoint(rt, mv, caller, movie_id, value) ==
    IF ~ValidRating(value) THEN Rejected(422, rt, mv)
    ELSE IF get_user_rating_for_movie(rt, caller, movie_id) # {}
    THEN Rejected(400, rt, mv)
    ELSE LET out == create_rating(rt, mv,
                                  RatingCreate(rating_data(caller, movie_id, value)))
         IN IF out.ok
            THEN [status |-> 200, ratings |-> out.ratings, movies |-> out.movies,
                  movie |-> movie_id]
            ELSE Rejected(500, rt, mv)

\* update_rating_endpoint without the ownership check.
update_rating_endpoint_NoOwnerCheck(rt, mv, caller, rating_id, sent, value) ==
    LET existing == get_rating(rt, rating_id)
    IN IF sent = "set" /\ ~ValidRating(value) THEN Rejected(422, rt, mv)
       ELSE IF existing = {} THEN Rejected(404, rt, mv)
       ELSE LET out == update_rating(rt, mv, rating_id, sent # "unset",
                                     IF sent = "set" THEN value ELSE NULL)
            IN IF out.raised THEN Rejected(500, rt, mv)
               ELSE [status |-> 200, ratings |-> out.ratings, movies |-> out.movies,
                     movie |-> (CHOOSE r \in existing : TRUE).movie_id]

\* PUT /ratings/{rating_id}; `sent` says what the body holds for `rating`: a
\* number ("set"), nothing ("unset") or an explicit null ("null"), which
\* Optional[float] accepts and exclude_unset keeps.
update_rating_endpoint(rt, mv, caller, rating_id, sent, value) ==
    LET existing == get_rating(rt, rating_id)
    IN IF sent = "set" /\ ~ValidRating(value) THEN Rejected(422, rt, mv)
       ELSE IF existing = {} THEN Rejected(404, rt, mv)
       ELSE IF \E r \in existing : r.user_id # caller THEN Rejected(403, rt, mv)
       ELSE LET out == update_rating(rt, mv, rating_id, sent # "unset",
                                     IF sent = "set" THEN value ELSE NULL)
            IN IF out.raised THEN Rejected(500, rt, mv)
               ELSE [status |-> 200, ratings |-> out.ratings, movies |-> out.movies,
                     movie |-> (CHOOSE r \in existing : TRUE).movie_id]

\* DELETE /ratings/{rating_id}
delete_rating_endpoint(rt, mv, caller, rating_id) ==
    LET existing == get_rating(rt, rating_id)
    IN IF existing = {} THEN Rejected(404, rt, mv)
       ELSE IF \E r \in existing : r.user_id # caller THEN Rejected(403, rt, mv)
       ELSE LET out == delete_rating(rt, mv, rating_id)
            IN IF out.ok
               THEN [status |-> 200, ratings |-> out.ratings, movies |-> out.movies,
                     movie |-> (CHOOSE r \in existing : TRUE).movie_id]
               ELSE Rejected(404, rt, mv)

----------------------------------------------------------------------------
\* crud/movie.py and api/v1/movies.py: the catalog writes.

\* The id the store gives a new movie: SQLite's rowid, one more than the
\* largest id in the table.
NextMovieId(mv) ==
    IF DOMAIN mv = {} THEN 1
    ELSE 1 + (CHOOSE i \in DOMAIN mv : \A j \in DOMAIN mv : j <= i)

\* crud create_movie: the new row has average_rating 0.0 and total_ratings 0.
create_movie(mv) ==
    [m \in DOMAIN mv \cup {NextMovieId(mv)} |->
        IF m \in DOMAIN mv THEN mv[m]
        ELSE [average_rating |-> FracZero, total_ratings |-> 0]]

\* A delete that removes the movie row and leaves its ratings as they are.
delete_movie_LeavesRatings(rt, mv, movie_id) ==
    IF ~get_movie(mv, movie_id)
    THEN [ok |-> FALSE, raised |-> FALSE, movies |-> mv]
    ELSE [ok |-> TRUE, raised |-> FALSE,
          movies |-> [m \in DOMAIN mv \ {movie_id} |-> mv[m]]]

\* crud delete_movie: db.delete(db_movie) and commit. Movie.ratings has no
\* delete cascade, so the flush sets movie_id of the movie's ratings to NULL;
\* ratings.movie_id is nullable=False, the UPDATE fails and the commit raises
\* with nothing changed.
delete_movie(rt, mv, movie_id) ==
    IF ~get_movie(mv, movie_id)
    THEN [ok |-> FALSE, raised |-> FALSE, movies |-> mv]
    ELSE IF \E r \in rt : r.movie_id = movie_id
    THEN [ok |-> FALSE, raised |-> TRUE, movies |-> mv]
    ELSE [ok |-> TRUE, raised |-> FALSE,
          movies |-> [m \in DOMAIN mv \ {movie_id} |-> mv[m]]]

\* POST /movies/
create_movie_endpoint(rt, mv) ==
    [status |-> 200, ratings |-> rt, movies |-> create_movie(mv),
     movie |-> NextMovieId(mv)]

\* PUT /movies/{movie_id}: the text fields are set, the stats stay.
update_movie_endpoint(rt, mv, movie_id) ==
    IF ~get_movie(mv, movie_id) THEN Rejected(404, rt, mv)
    ELSE [status |-> 200, ratings |-> rt, movies |-> mv, movie |-> movie_id]

\* DELETE /movies/{movie_id}
delete_movie_endpoint(rt, mv, movie_id) ==
    LET out == delete_movie(rt, mv, movie_id)
    IN IF out.raised THEN Rejected(500, rt, mv)
       ELSE IF ~out.ok THEN Rejected(404, rt, mv)
       ELSE [status |-> 200, ratings |-> rt, movies |-> out.movies,
             movie |-> movie_id]

----------------------------------------------------------------------------
\* Query results whose order the code leaves open.

\* The first n elements of S in descending key order, ties in any order: what
\* `ORDER BY key DESC LIMIT n` returns, and what a stable descending sort
\* followed by [:n] returns when the list it sorts is in arbitrary order
\* (a list built from a set, or from a query with no ORDER BY).
\* The function f itself; comparing it makes TLC compute its values once
\* instead of at every application.
Tabulated(f) == IF f = f THEN f ELSE f

RECURSIVE OrderedDesc(_, _, _)
OrderedDesc(S, key, n) ==
    IF n <= 0 \/ S = {} THEN {<<>>}
    ELSE LET k == Tabulated(key)
             best == CHOOSE x \in S : \A y \in S : ~FracLess(k[x], k[y])
             top == {x \in S : ~FracLess(k[x], k[best])}
         IN UNION {{<<x>> \o t : t \in OrderedDesc(S \ {x}, k, n - 1)} : x \in top}

\* The subsets of `rows` that leave out d of its elements.
RECURSIVE Without(_, _)
Without(rows, d) ==
    IF d <= 0 THEN {rows} ELSE UNION {Without(rows \ {x}, d - 1) : x \in rows}

\* .offset(0).limit(limit).all() with no ORDER BY: any `limit` of the rows.
Page(rows, limit) ==
    IF Cardinality(rows) <= limit THEN {rows}
    ELSE Without(rows, Cardinality(rows) - limit)

get_user_ratings(rt, user_id) == Page({r \in rt : r.user_id = user_id}, DefaultPageLimit)

get_movies(mv) == Page(DOMAIN mv, DefaultPageLimit)

\* get_top_rated_movies that takes a limit of 0 for "no limit".
get_top_rated_movies_ZeroUnlimited(mv, limit) ==
    OrderedDesc({m \in DOMAIN mv : mv[m].total_ratings > 0},
                [m \in DOMAIN mv |-> mv[m].average_rating],
                IF limit = 0 THEN Cardinality(DOMAIN mv) ELSE limit)

\* get_top_rated_movies without the total_ratings > 0 filter.
get_top_rated_movies_NoFilter(mv, limit) ==
    OrderedDesc(DOMAIN mv, [m \in DOMAIN mv |-> mv[m].average_rating], limit)

\* crud get_top_rated_movies: every sequence the query can return.
get_top_rated_movies(mv, limit) ==
    OrderedDesc({m \in DOMAIN mv : mv[m].total_ratings > 0},
                [m \in DOMAIN mv |-> mv[m].average_rating], limit)

RECURSIVE Resolve(_, _)
\* The lookups without `if movie:`: every ranked id is returned.
Resolve_KeepsMissing(mv, ids) == ids

\* The loop `movie = get_movie(db, id); if movie: append`: ids that no longer
\* resolve are dropped.
Resolve(mv, ids) ==
    IF ids = <<>> THEN <<>>
    ELSE (IF get_movie(mv, Head(ids)) THEN <<Head(ids)>> ELSE <<>>)
         \o Resolve(mv, Tail(ids))

Range(seq) == {seq[i] : i \in 1..Len(seq)}

Outcome(path, fault, result) == [path |-> path, fault |-> fault, result |-> result]

\* What can go wrong inside one call. "compute": a numeric step (matrix,
\* SVD, TF-IDF, cosine) raises. "store": a query of the call raises and
\* the store answers the queries that follow. "down": the store is
\* unreachable for the whole call, so every query of it raises.
ComputeFaults == {"none", "compute"}

StoreFaults == {"store", "down"}

\* The exception leaves the function.
Raised == {Outcome("raised", TRUE, <<>>)}

\* A handler that raises again whatever it caught.
Handled_Reraise(mv, limit, fault) == Raised

\* A handler that answers with the empty list, as get_similar_movies' does.
Handled_Empty(mv, limit, fault) ==
    IF fault = "down" THEN Raised
    ELSE {Outcome(IF fault = "store" THEN "store_error" ELSE "error", TRUE, <<>>)}

\* `except Exception: return get_top_rated_movies(db, limit=limit)`: the
\* handler runs a query of its own, which raises when the store is down.
Handled(mv, limit, fault) ==
    IF fault = "down" THEN Raised
    ELSE {Outcome(IF fault = "store" THEN "store_error" ELSE "error", TRUE, r) :
            r \in get_top_rated_movies(mv, limit)}

\* The popularity fallback as the outcome of a predictor.
Fallback(mv, limit, path, fault) ==
    {Outcome(path, fault, r) : r \in get_top_rated_movies(mv, limit)}

----------------------------------------------------------------------------
\* ml/collaborative.py

\* The query without its HAVING count >= min_ratings_per_user.
get_ratings_for_collaborative_filtering_NoThreshold(rt) == rt

get_ratings_for_collaborative_filtering(rt) ==
    {r \in rt : Cardinality({q \in rt : q.user_id = r.user_id}) >= MinRatingsPerUser}

\* The matrix, keyed by user id and movie id; 0 marks an unrated cell.
create_user_movie_matrix(rt) ==
    LET rows == get_ratings_for_collaborative_filtering(rt)
        users == {r.user_id : r \in rows}
        mids == {r.movie_id : r \in rows}
        cell(u, m) ==
            LET here == {r \in rows : r.user_id = u /\ r.movie_id = m}
            IN IF here = {} THEN 0 ELSE (CHOOSE r \in here : TRUE).rating
    IN [users |-> users, movies |-> mids,
        matrix |-> [u \in users |-> [m \in mids |-> cell(u, m)]]]

\* {id: idx for idx, id in enumerate(list(set(ids)))}: the index maps for
\* every order the list may have.
RECURSIVE Enumerate(_)
Enumerate(S) ==
    IF S = {} THEN {<<>>}
    ELSE UNION {{[y \in S |-> IF y = x THEN Cardinality(S) - 1 ELSE f[y]]
                   : f \in Enumerate(S \ {x})} : x \in S}

\* The matrix of every user that has a rating, with no threshold.
indexed_user_movie_matrix_AllUsers(rt) ==
    LET rows == rt
        users == {r.user_id : r \in rows}
        mids == {r.movie_id : r \in rows}
        built(user_to_idx, movie_to_idx) ==
            [users |-> users, movies |-> mids,
             user_to_idx |-> user_to_idx, movie_to_idx |-> movie_to_idx,
             matrix |->
                [i \in 0..(Cardinality(users) - 1) |->
                    [j \in 0..(Cardinality(mids) - 1) |->
                        LET here == {r \in rows : /\ user_to_idx[r.user_id] = i
                                                  /\ movie_to_idx[r.movie_id] = j}
                        IN IF here = {} THEN 0 ELSE (CHOOSE r \in here : TRUE).rating]]]
    IN {built(ui, mi) : ui \in Enumerate(users), mi \in Enumerate(mids)}

\* What create_user_movie_matrix returns: the lists, the index maps, and the
\* array filled by position, for every order of the two lists.
indexed_user_movie_matrix(rt) ==
    LET rows == get_ratings_for_collaborative_filtering(rt)
        users == {r.user_id : r \in rows}
        mids == {r.movie_id : r \in rows}
        built(user_to_idx, movie_to_idx) ==
            [users |-> users, movies |-> mids,
             user_to_idx |-> user_to_idx, movie_to_idx |-> movie_to_idx,
             matrix |->
                [i \in 0..(Cardinality(users) - 1) |->
                    [j \in 0..(Cardinality(mids) - 1) |->
                        LET here == {r \in rows : /\ user_to_idx[r.user_id] = i
                                                  /\ movie_to_idx[r.movie_id] = j}
                        IN IF here = {} THEN 0 ELSE (CHOOSE r \in here : TRUE).rating]]]
    IN {built(ui, mi) : ui \in Enumerate(users), mi \in Enumerate(mids)}

\* n_components clamped to at least 1.
NComponents_AtLeastOne(M) ==
    LET k == Min(MaxComponents, Min(Cardinality(M.users), Cardinality(M.movies)) - 1)
    IN IF k < 1 THEN 1 ELSE k

\* n_components of the TruncatedSVD.
NComponents(M) ==
    Min(MaxComponents, Min(Cardinality(M.users), Cardinality(M.movies)) - 1)

\* cosine_similarity of the reduced rows lies in [-1, 1]. The similarities
\* are a function of the store that the model leaves open: a call is given a
\* vector `sim` of them, one per other eligible user, and a repeated call on
\* the same store is given the same vector.
Similarities == {-1, 0, 1}

SimilarityChoices(rt, user_id) ==
    LET users == {r.user_id : r \in get_ratings_for_collaborative_filtering(rt)}
    IN [IF user_id \in users THEN users \ {user_id} ELSE {} -> Similarities]

\* Predictions that keep every movie whose weights do not sum to zero.
Predictions_NonZeroWeight(M, user_id, rated_movie_ids, sim) ==
    LET others(m) == {o \in M.users : o # user_id /\ M.matrix[o][m] > 0}
        total_weight(m) == SumOver(others(m), [o \in others(m) |-> sim[o]])
        weighted(m) == SumOver(others(m), [o \in others(m) |-> sim[o] * M.matrix[o][m]])
        cands == {m \in M.movies : /\ m \notin rated_movie_ids
                                   /\ others(m) # {}
                                   /\ total_weight(m) # 0}
    IN [m \in cands |-> Frac(weighted(m), total_weight(m))]

\* The (movie_id, predicted_rating) pairs of one call, as a function on the
\* candidate movies.
Predictions(M, user_id, rated_movie_ids, sim) ==
    LET others(m) == {o \in M.users : o # user_id /\ M.matrix[o][m] > 0}
        total_weight(m) == SumOver(others(m), [o \in others(m) |-> sim[o]])
        weighted(m) == SumOver(others(m), [o \in others(m) |-> sim[o] * M.matrix[o][m]])
        cands == {m \in M.movies : /\ m \notin rated_movie_ids
                                   /\ others(m) # {}
                                   /\ total_weight(m) > 0}
    IN [m \in cands |-> Frac(weighted(m), total_weight(m))]

\* The body of get_collaborative_recommendations with the store as each of
\* its queries finds it: `rt0` when create_user_movie_matrix(db) runs, `rt`
\* and `mv` when get_user_ratings, get_movie and get_top_rated_movies run.
\* `fault` says what raises inside the try block, if anything.
collaborative_queries(rt0, rt, mv, user_id, limit, fault, sim) ==
    LET M == create_user_movie_matrix(rt0)
    IN IF fault # "none" THEN Handled(mv, limit, fault)
       ELSE IF user_id \notin M.users THEN Fallback(mv, limit, "coldstart", FALSE)
       ELSE IF NComponents(M) < 1 THEN Fallback(mv, limit, "degenerate", FALSE)
       ELSE UNION {
              LET rated_movie_ids == {r.movie_id : r \in user_ratings}
                  predictions == Predictions(M, user_id, rated_movie_ids, sim)
              IN {Outcome("normal", FALSE, Resolve(mv, ids)) :
                    ids \in OrderedDesc(DOMAIN predictions, predictions, limit)}
              : user_ratings \in get_user_ratings(rt, user_id)}

\* Every outcome of get_collaborative_recommendations(db, user_id, limit) on
\* a store that no one writes during the call.
get_collaborative_recommendations(rt, mv, user_id, limit, fault, sim) ==
    collaborative_queries(rt, rt, mv, user_id, limit, fault, sim)

----------------------------------------------------------------------------
\* ml/content_based.py

\* The terms of a movie's text (title, description, genre, director) that
\* survive the vectorizer, as term numbers.
MovieTerms(m) == {m % 3, 3 + (m % 2)}

\* Row m of the TF-IDF matrix; the weight of a term is taken as 1 when the
\* movie's text has it and 0 otherwise.
TfidfWeight(m, t) == IF t \in MovieTerms(m) THEN 1 ELSE 0

\* create_movie_features: the movie ids of the page read and the vocabulary.
create_movie_features(movie_ids) ==
    [movie_ids |-> movie_ids, vocabulary |-> UNION {MovieTerms(m) : m \in movie_ids}]

Dot(vocabulary, a, b) == SumOver(vocabulary, [t \in vocabulary |-> a[t] * b[t]])

\* cosine_similarity squared (all weights are >= 0, so the order is kept);
\* sklearn gives 0 for a zero vector.
CosineSq(vocabulary, a, b) ==
    LET ab == Dot(vocabulary, a, b)
        aa == Dot(vocabulary, a, a)
        bb == Dot(vocabulary, b, b)
    IN IF aa = 0 \/ bb = 0 THEN FracZero ELSE Frac(ab * ab, aa * bb)

MovieVector(F, m) == [t \in F.vocabulary |-> TfidfWeight(m, t)]

\* user_preferences: the rating-weighted sum of the rated movies' rows (the
\* division by total_weight rescales it and leaves every cosine unchanged).
UserPreferences(F, user_ratings) ==
    LET known == {r \in user_ratings : r.movie_id \in F.movie_ids}
    IN [t \in F.vocabulary |->
          SumOver(known, [r \in known |-> r.rating * TfidfWeight(r.movie_id, t)])]

\* total_weight: the ratings of the user's movies that have a row.
TotalWeight(F, user_ratings) ==
    LET known == {r \in user_ratings : r.movie_id \in F.movie_ids}
    IN SumOver(known, [r \in known |-> r.rating])

\* `if total_weight > 0:` not taken: the all-zero user_preferences goes on
\* to cosine_similarity and the ranking of it is returned.
ZeroProfile(mv, limit, ranked) ==
    {Outcome("zero_profile", FALSE, Resolve(mv, ids)) : ids \in ranked}

\* The body of get_content_based_recommendations with the catalog as each
\* of its queries finds it: `mv0` when get_user_ratings, the cold-start
\* query and get_movies run, `mv` when the per-id get_movie lookups run.
content_based_queries(rt, mv0, mv, user_id, limit, fault) ==
    IF fault # "none" THEN Handled(mv, limit, fault)
    ELSE UNION {
       IF user_ratings = {} THEN Fallback(mv0, limit, "coldstart", FALSE)
       ELSE UNION {
          LET F == create_movie_features(movie_ids)
          IN IF F.vocabulary = {} THEN Fallback(mv0, limit, "error", FALSE)
             ELSE LET user_preferences == UserPreferences(F, user_ratings)
                      rated_movie_ids == {r.movie_id : r \in user_ratings}
                      cands == F.movie_ids \ rated_movie_ids
                      similarities ==
                          [m \in cands |->
                             CosineSq(F.vocabulary, user_preferences, MovieVector(F, m))]
                      ranked == OrderedDesc(cands, similarities, limit)
                  IN IF TotalWeight(F, user_ratings) > 0
                     THEN {Outcome("normal", FALSE, Resolve(mv, ids)) : ids \in ranked}
                     ELSE ZeroProfile(mv, limit, ranked)
          : movie_ids \in get_movies(mv0)}
       : user_ratings \in get_user_ratings(rt, user_id)}

\* Every outcome of get_content_based_recommendations(db, user_id, limit) on
\* a store that no one writes during the call.
get_content_based_recommendations(rt, mv, user_id, limit, fault) ==
    content_based_queries(rt, mv, mv, user_id, limit, fault)

\* An unknown movie answered like a cold start.
UnknownItem_Popular(mv, limit) == Fallback(mv, limit, "unknown", FALSE)

\* `if movie_id not in movie_ids: return []`
UnknownItem(mv, limit) == {Outcome("unknown", FALSE, <<>>)}

\* `except Exception: return []`: no query in the handler.
get_similar_movies(mv, movie_id, limit, fault) ==
    IF fault \in StoreFaults THEN {Outcome("store_error", TRUE, <<>>)}
    ELSE IF fault # "none" THEN {Outcome("error", TRUE, <<>>)}
    ELSE UNION {
       LET F == create_movie_features(movie_ids)
       IN IF F.vocabulary = {} THEN {Outcome("error", FALSE, <<>>)}
          ELSE IF movie_id \notin F.movie_ids THEN UnknownItem(mv, limit)
          ELSE LET cands == F.movie_ids \ {movie_id}
                   similarities ==
                       [m \in cands |->
                          CosineSq(F.vocabulary, MovieVector(F, movie_id), MovieVector(F, m))]
               IN {Outcome("normal", FALSE, Resolve(mv, ids)) :
                     ids \in OrderedDesc(cands, similarities, limit)}
       : movie_ids \in get_movies(mv)}

----------------------------------------------------------------------------
\* ml/hybrid.py

\* weight * (1.0 - i / len(recs)) for the item at 1-based position p = i + 1.
RankScore(weight, p, n) == Frac(weight * (n - (p - 1)), WeightScale * n)

PositionIn(seq, x) == CHOOSE p \in 1..Len(seq) : seq[p] = x

\* hybrid_movies after both loops: the keys in insertion order and the score
\* of each key.
HybridKeys(collaborative_recs, content_based_recs) ==
    collaborative_recs
    \o SelectSeq(content_based_recs, LAMBDA m : m \notin Range(collaborative_recs))

\* The second loop assigning the content score where it should add it.
HybridScore_Overwrite(collaborative_recs, content_based_recs) ==
    LET cscore(m) == RankScore(CollabWeight, PositionIn(collaborative_recs, m),
                               Len(collaborative_recs))
        kscore(m) == RankScore(ContentWeight, PositionIn(content_based_recs, m),
                               Len(content_based_recs))
    IN [m \in Range(collaborative_recs) \cup Range(content_based_recs) |->
          IF m \in Range(content_based_recs) THEN kscore(m) ELSE cscore(m)]

HybridScore(collaborative_recs, content_based_recs) ==
    LET cscore(m) == RankScore(CollabWeight, PositionIn(collaborative_recs, m),
                               Len(collaborative_recs))
        kscore(m) == RankScore(ContentWeight, PositionIn(content_based_recs, m),
                               Len(content_based_recs))
    IN [m \in Range(collaborative_recs) \cup Range(content_based_recs) |->
          IF m \in Range(collaborative_recs) /\ m \in Range(content_based_recs)
          THEN FracAdd(cscore(m), kscore(m))
          ELSE IF m \in Range(collaborative_recs) THEN cscore(m)
          ELSE kscore(m)]

\* sorted(..., reverse=True): descending and stable.
RECURSIVE SortedDesc(_, _)
SortedDesc(seq, key) ==
    IF seq = <<>> THEN <<>>
    ELSE LET p == CHOOSE i \in 1..Len(seq) :
                    /\ \A j \in 1..Len(seq) : ~FracLess(key[seq[i]], key[seq[j]])
                    /\ \A j \in 1..(i - 1) : FracLess(key[seq[j]], key[seq[i]])
             rest == [j \in 1..(Len(seq) - 1) |-> IF j < p THEN seq[j] ELSE seq[j + 1]]
         IN <<seq[p]>> \o SortedDesc(rest, key)

\* The blend cut from the dict in insertion order, with no sort.
Blend_InsertionOrder(collaborative_recs, content_based_recs, limit) ==
    LET keys == HybridKeys(collaborative_recs, content_based_recs)
    IN SubSeq(keys, 1, Min(limit, Len(keys)))

\* sorted(hybrid_movies.values(), key=score, reverse=True)[:limit]
Blend(collaborative_recs, content_based_recs, limit) ==
    LET sorted_movies == SortedDesc(HybridKeys(collaborative_recs, content_based_recs),
                                    HybridScore(collaborative_recs, content_based_recs))
    IN SubSeq(sorted_movies, 1, Min(limit, Len(sorted_movies)))

HybridOutcome(path, fault, result, collab, content) ==
    [path |-> path, fault |-> fault, result |-> result,
     collab |-> collab, content |-> content]

\* The handler asking the collaborative predictor for 2 * limit items.
get_hybrid_recommendations_DoubleLimit(rt, mv, user_id, limit, fault, sim) ==
    IF fault = "down"
    THEN {HybridOutcome(c.path, TRUE, c.result, <<>>, <<>>) :
            c \in get_collaborative_recommendations(rt, mv, user_id, limit, "down", sim)}
    ELSE IF fault = "compute"
    THEN {HybridOutcome("error", TRUE, c.result, <<>>, <<>>) :
            c \in get_collaborative_recommendations(rt, mv, user_id, limit * 2, "none", sim)}
    ELSE {HybridOutcome(IF fault = "store" THEN "store_error" ELSE "normal",
                        fault # "none",
                        Blend(c.result, k.result, limit), c.result, k.result) :
            c \in get_collaborative_recommendations(rt, mv, user_id, limit * 2, fault, sim),
            k \in get_content_based_recommendations(rt, mv, user_id, limit * 2, "none")}

\* Every outcome of get_hybrid_recommendations(db, user_id, limit). `fault`:
\* "compute", a step of the blend itself raises and the handler calls the
\* collaborative predictor anew; "down", the two predictors raise and so
\* does the handler's call; "store", a query of the first predictor raises
\* and that predictor answers with its own fallback.
get_hybrid_recommendations(rt, mv, user_id, limit, fault, sim) ==
    IF fault = "down"
    THEN {HybridOutcome(c.path, TRUE, c.result, <<>>, <<>>) :
            c \in get_collaborative_recommendations(rt, mv, user_id, limit, "down", sim)}
    ELSE IF fault = "compute"
    THEN {HybridOutcome("error", TRUE, c.result, <<>>, <<>>) :
            c \in get_collaborative_recommendations(rt, mv, user_id, limit, "none", sim)}
    ELSE {HybridOutcome(IF fault = "store" THEN "store_error" ELSE "normal",
                        fault # "none",
                        Blend(c.result, k.result, limit), c.result, k.result) :
            c \in get_collaborative_recommendations(rt, mv, user_id, limit * 2, fault, sim),
            k \in get_content_based_recommendations(rt, mv, user_id, limit * 2, "none")}

----------------------------------------------------------------------------
\* A collaborative call that has run create_user_movie_matrix(db) and not yet
\* get_user_ratings(db, user_id): `rt0` is the rating table its matrix was
\* built from, `seen` the states the store has been in since the call began.
Snapshot(rt, mv) == [ratings |-> rt, movies |-> mv]

NoRun == [pc |-> "idle", user |-> NULL, n |-> 0, rt0 |-> {}, mv0 |-> <<>>,
          seen |-> {}, between |-> FALSE]

\* A committed write is what the queries of a running call find from then on.
Observed(rt, mv) ==
    IF run.pc = "matrix" THEN [run EXCEPT !.seen = @ \cup {Snapshot(rt, mv)}] ELSE run

\* Another worker served a recommendation request in the meantime.
Overlapped == IF run.pc = "matrix" THEN [run EXCEPT !.between = TRUE] ELSE run

----------------------------------------------------------------------------
\* api/v1/recommendations.py and api/v1/movies.py: the read endpoints. A
\* request is served when no other is in progress, or again with the same
\* arguments while its previous response is still held.

Serving(op, user, arg, n) ==
    \/ Idle
    \/ /\ last.op = op /\ last.user = user /\ last.arg = arg /\ last.n = n
       /\ run.pc # "done"

\* The similarities handed to a call: the ones of the previous call when the
\* same request is repeated; none are handed to a call that fails before it
\* uses them.
SimilarityOf(user_id, fault) ==
    IF fault \notin {"none"} THEN {<<>>}
    ELSE IF ~Idle /\ ~last.fault THEN {last.sim}
    ELSE SimilarityChoices(ratings, user_id)

\* get_recommendations turns an exception into a 500; FastAPI does the same
\* for the endpoints that catch nothing.
StatusOf(out) == IF out.path = "raised" THEN 500 ELSE 200

\* A read endpoint that recomputes every movie's stats before it answers.
Answered_RefreshesStats(op, user, arg, n, out, sim, fault) ==
    /\ last' = [Response(op, StatusOf(out), user, arg, n, out.result, out.path)
                   EXCEPT !.fault = out.fault, !.cause = fault, !.sim = sim]
    /\ movies' = [m \in DOMAIN movies |->
                    update_movie_rating_stats(ratings, movies, m)[m]]
    /\ run' = Overlapped
    /\ UNCHANGED <<ratings, writes, procs>>

\* The response of a read endpoint; `cause` keeps what went wrong in the call.
Answered(op, user, arg, n, out, sim, fault) ==
    /\ last' = [Response(op, StatusOf(out), user, arg, n, out.result, out.path)
                   EXCEPT !.fault = out.fault, !.cause = fault, !.sim = sim]
    /\ run' = Overlapped
    /\ UNCHANGED <<ratings, movies, writes, procs>>

TopRated ==
    \E limit \in Limits :
        /\ Serving("top_rated", NULL, NULL, limit)
        /\ \E r \in get_top_rated_movies(movies, limit) :
              Answered("top_rated", NULL, NULL, limit, Outcome("normal", FALSE, r), <<>>, "none")

CollaborativeCall(faults) ==
    \E user_id \in Users, limit \in Limits :
        /\ Serving("collaborative", user_id, NULL, limit)
        /\ \E fault \in faults :
            \E sim \in SimilarityOf(user_id, fault) :
              \E out \in get_collaborative_recommendations(ratings, movies, user_id,
                                                           limit, fault, sim) :
                Answered("collaborative", user_id, NULL, limit, out, sim, fault)

Collaborative == CollaborativeCall(ComputeFaults)

ContentBasedCall(faults) ==
    \E user_id \in Users, limit \in Limits :
        /\ Serving("content_based", user_id, NULL, limit)
        /\ \E fault \in faults :
            \E out \in get_content_based_recommendations(ratings, movies, user_id,
                                                         limit, fault) :
                Answered("content_based", user_id, NULL, limit, out, <<>>, fault)

ContentBased == ContentBasedCall(ComputeFaults)

SimilarMoviesCall(faults) ==
    \E movie_id \in MovieInputs \cup {UnknownMovie}, limit \in Limits :
        /\ Serving("similar", NULL, movie_id, limit)
        /\ \E fault \in faults :
            \E out \in get_similar_movies(movies, movie_id, limit, fault) :
                Answered("similar", NULL, movie_id, limit, out, <<>>, fault)

SimilarMovies == SimilarMoviesCall(ComputeFaults)

HybridCall(faults) ==
    \E user_id \in Users, limit \in Limits :
        /\ Serving("hybrid", user_id, NULL, limit)
        /\ \E fault \in faults :
            \E sim \in (IF ~Idle /\ last.sim # <<>> THEN {last.sim}
                        ELSE SimilarityChoices(ratings, user_id)) :
              \E out \in get_hybrid_recommendations(ratings, movies, user_id, limit,
                                                    fault, sim) :
                /\ last' = [Response("hybrid", StatusOf(out), user_id, NULL, limit,
                                     out.result, out.path)
                               EXCEPT !.fault = out.fault, !.cause = fault, !.sim = sim,
                                      !.collab = out.collab, !.content = out.content]
                /\ run' = Overlapped
                /\ UNCHANGED <<ratings, movies, writes, procs>>

Hybrid == HybridCall(ComputeFaults)

----------------------------------------------------------------------------
\* The same requests while the rating store or the catalog fails.

\* get_top_rated_movies catches nothing: its one query raises.
TopRatedStoreFailure ==
    \E limit \in Limits :
        /\ Serving("top_rated", NULL, NULL, limit)
        /\ \E out \in Raised : Answered("top_rated", NULL, NULL, limit, out, <<>>, "down")

CollaborativeStoreFailure == CollaborativeCall(StoreFaults)

ContentBasedStoreFailure == ContentBasedCall(StoreFaults)

SimilarMoviesStoreFailure == SimilarMoviesCall(StoreFaults)

HybridStoreFailure == HybridCall(StoreFaults)

----------------------------------------------------------------------------
\* A served write request: the store after it, and the response. The
\* response holds the request's value (`path` says whether one was sent) and,
\* for a committed write, the movie whose stats it recomputed.
Served(out, op, caller, arg, value, sent) ==
    /\ out.status = 200 => writes < MaxWrites
    /\ ratings' = out.ratings
    /\ movies' = out.movies
    /\ run' = Observed(out.ratings, out.movies)
    /\ UNCHANGED procs
    /\ writes' = IF out.status = 200 THEN writes + 1 ELSE writes
    /\ last' = Response(op, out.status, caller, arg, value,
                        IF out.status = 200 THEN <<out.movie>> ELSE <<>>, sent)

CreateRating ==
    /\ Idle
    /\ \E caller \in Users, movie_id \in MovieInputs, value \in RatingInputs :
        Served(create_rating_endpoint(ratings, movies, caller, movie_id, value),
               "create_rating", caller, movie_id, value, "set")

UpdateRating ==
    /\ Idle
    /\ \E caller \in Users, rating_id \in RatingIdInputs :
        \/ \E value \in RatingInputs :
             Served(update_rating_endpoint(ratings, movies, caller, rating_id,
                                           "set", value),
                    "update_rating", caller, rating_id, value, "set")
        \/ \E sent \in {"unset", "null"} :
             Served(update_rating_endpoint(ratings, movies, caller, rating_id,
                                           sent, NULL),
                    "update_rating", caller, rating_id, NULL, sent)

DeleteRating ==
    /\ Idle
    /\ \E caller \in Users, rating_id \in RatingIdInputs :
        Served(delete_rating_endpoint(ratings, movies, caller, rating_id),
               "delete_rating", caller, rating_id, NULL, "unset")

MovieIdInputs == Movies \cup {UnknownMovie}

CreateMovie ==
    /\ Idle
    /\ Served(create_movie_endpoint(ratings, movies), "create_movie", NULL,
              NextMovieId(movies), NULL, "unset")

UpdateMovie ==
    /\ Idle
    /\ \E movie_id \in MovieIdInputs :
          Served(update_movie_endpoint(ratings, movies, movie_id), "update_movie",
                 NULL, movie_id, NULL, "unset")

DeleteMovie ==
    /\ Idle
    /\ \E movie_id \in MovieIdInputs :
          Served(delete_movie_endpoint(ratings, movies, movie_id), "delete_movie",
                 NULL, movie_id, NULL, "unset")

----------------------------------------------------------------------------
\* Write requests served by other workers at the same time, each between
\* two of its statements.
Workers == 1..NumWorkers

NoProc == [pc |-> "idle", op |-> "none", user |-> NULL, movie |-> NULL,
           value |-> NULL,
           agg |-> [average_rating |-> FracZero, total_ratings |-> 0],
           status |-> 0, raced |-> FALSE]

NoProcs == [w \in Workers |-> NoProc]

----------------------------------------------------------------------------
Init ==
    /\ \E s \in Seeds : ratings = load_sample_ratings(s)
    /\ movies = [m \in Movies |-> [average_rating |-> FracZero, total_ratings |-> 0]]
    /\ writes = 0
    /\ last = NoRequest
    /\ run = NoRun
    /\ procs = NoProcs

\* The response is delivered and the request ends.
Reply ==
    /\ ~Idle
    /\ last' = NoRequest
    /\ run' = IF run.pc = "done" THEN NoRun ELSE run
    /\ UNCHANGED <<ratings, movies, writes, procs>>

Next ==
    \/ CreateRating
    \/ UpdateRating
    \/ DeleteRating
    \/ TopRated
    \/ Collaborative
    \/ ContentBased
    \/ SimilarMovies
    \/ Hybrid
    \/ Reply

Spec == Init /\ [][Next]_vars

\* The API with a store that may fail during a recommendation call.
NextStoreFailure ==
    \/ Next
    \/ TopRatedStoreFailure
    \/ CollaborativeStoreFailure
    \/ ContentBasedStoreFailure
    \/ SimilarMoviesStoreFailure
    \/ HybridStoreFailure

SpecStoreFailure == Init /\ [][NextStoreFailure]_vars

----------------------------------------------------------------------------
\* A collaborative call served by one worker while other workers serve
\* rating writes: each query of the call reads the store as it is when the
\* query runs (the session holds no snapshot between its SELECTs).

\* create_user_movie_matrix(db) has run.
CollaborativeBegin ==
    /\ Idle
    /\ run.pc = "idle"
    /\ \E user_id \in Users, limit \in Limits :
          run' = [pc |-> "matrix", user |-> user_id, n |-> limit, rt0 |-> ratings,
                  mv0 |-> movies,
                  seen |-> {Snapshot(ratings, movies)}, between |-> FALSE]
    /\ UNCHANGED <<ratings, movies, writes, last, procs>>

\* The rest of the call: get_user_ratings, the predictions, the lookups, or
\* the fallback query.
CollaborativeFinish ==
    /\ Idle
    /\ run.pc = "matrix"
    /\ \E sim \in SimilarityChoices(run.rt0, run.user) :
         \E out \in collaborative_queries(run.rt0, ratings, movies, run.user, run.n,
                                          "none", sim) :
            last' = [Response("collaborative", StatusOf(out), run.user, NULL, run.n,
                              out.result, out.path)
                        EXCEPT !.fault = out.fault, !.sim = sim]
    /\ run' = [run EXCEPT !.pc = "done"]
    /\ UNCHANGED <<ratings, movies, writes, procs>>

NextSnapshot ==
    \/ CollaborativeBegin
    \/ CollaborativeFinish
    \/ CreateRating
    \/ UpdateRating
    \/ DeleteRating
    \/ Reply

SpecSnapshot == Init /\ [][NextSnapshot]_vars

----------------------------------------------------------------------------
\* Recommendation requests served by several workers over a store that no
\* one writes: a collaborative call with the other requests between its
\* queries.

\* A store whose movie stats are as loaded, or recomputed for every movie
\* (an update request that sets no field recomputes the stats of its movie).
InitReaders ==
    /\ \E s \in Seeds : ratings = load_sample_ratings(s)
    /\ \E T \in {{}, Movies} :
          movies = [m \in Movies |->
                      IF m \in T
                      THEN update_movie_rating_stats(
                               ratings,
                               [x \in Movies |-> [average_rating |-> FracZero,
                                                  total_ratings |-> 0]], m)[m]
                      ELSE [average_rating |-> FracZero, total_ratings |-> 0]]
    /\ writes = 0
    /\ last = NoRequest
    /\ run = NoRun
    /\ procs = NoProcs

NextReaders ==
    \/ CollaborativeBegin
    \/ CollaborativeFinish
    \/ TopRated
    \/ Collaborative
    \/ ContentBased
    \/ SimilarMovies
    \/ Hybrid
    \/ Reply

SpecReaders == InitReaders /\ [][NextReaders]_vars

----------------------------------------------------------------------------
\* Rating writes served by several workers at once, one request per worker,
\* each request between two of its statements: the existence check and the
\* insert of a create; the commit of the rating change, the aggregate query
\* and the write of the movie's stats of every write.

Request(op, caller, value) ==
    [NoProc EXCEPT !.op = op, !.user = caller, !.value = value]

\* create_rating_endpoint up to and including the existence check.
CreateCheck ==
    \E w \in Workers :
        /\ procs[w].pc = "idle"
        /\ \E caller \in Users, movie_id \in MovieInputs, value \in RatingInputs :
              LET req == [Request("create_rating", caller, value)
                             EXCEPT !.movie = movie_id]
              IN procs' = [procs EXCEPT ![w] =
                    IF ~ValidRating(value)
                    THEN [req EXCEPT !.pc = "done", !.status = 422]
                    ELSE IF get_user_rating_for_movie(ratings, caller, movie_id) # {}
                    THEN [req EXCEPT !.pc = "done", !.status = 400]
                    ELSE [req EXCEPT !.pc = "checked"]]
        /\ UNCHANGED <<ratings, movies, writes, last, run>>

\* The rest of create_rating_endpoint up to create_rating's commit. `raced`
\* records that another worker stood between its check and its insert for the
\* same pair.
CreateInsert ==
    \E w \in Workers :
        /\ procs[w].pc = "checked"
        /\ LET p == procs[w]
               out == create_rating(ratings, movies,
                                    RatingCreate(rating_data(p.user, p.movie, p.value)))
               raced == \E v \in Workers \ {w} :
                            /\ procs[v].pc = "checked"
                            /\ procs[v].user = p.user
                            /\ procs[v].movie = p.movie
           IN /\ ratings' = out.ratings
              /\ procs' = [procs EXCEPT
                              ![w].pc = IF out.ok THEN "committed" ELSE "done",
                              ![w].status = IF out.ok THEN 0 ELSE 500,
                              ![w].raced = raced]
        /\ UNCHANGED <<movies, writes, last, run>>

\* The endpoint's checks and the commit of the rating change; the stats are
\* still to be recomputed.
Committed(w, op, caller, value, out) ==
    /\ ratings' = out.ratings
    /\ procs' = [procs EXCEPT ![w] =
            [Request(op, caller, value)
                EXCEPT !.pc = IF out.status = 200 THEN "committed" ELSE "done",
                       !.movie = out.movie,
                       !.status = IF out.status = 200 THEN 0 ELSE out.status]]
    /\ UNCHANGED <<movies, writes, last, run>>

\* update_rating_endpoint up to update_rating's commit.
UpdateCommit ==
    \E w \in Workers :
        /\ procs[w].pc = "idle"
        /\ \E caller \in Users, rating_id \in RatingIdInputs, value \in RatingInputs :
              Committed(w, "update_rating", caller, value,
                        update_rating_endpoint(ratings, movies, caller, rating_id,
                                               "set", value))

\* delete_rating_endpoint up to delete_rating's commit.
DeleteCommit ==
    \E w \in Workers :
        /\ procs[w].pc = "idle"
        /\ \E caller \in Users, rating_id \in RatingIdInputs :
              Committed(w, "delete_rating", caller, NULL,
                        delete_rating_endpoint(ratings, movies, caller, rating_id))

\* update_movie_rating_stats: the aggregate query.
ReadAggregate ==
    \E w \in Workers :
        /\ procs[w].pc = "committed"
        /\ procs' = [procs EXCEPT ![w].pc = "read",
                                  ![w].agg = rating_stats(ratings, procs[w].movie)]
        /\ UNCHANGED <<ratings, movies, writes, last, run>>

\* update_movie_rating_stats: get_movie, the two assignments and the commit.
WriteStats ==
    \E w \in Workers :
        /\ procs[w].pc = "read"
        /\ movies' = write_rating_stats(movies, procs[w].movie, procs[w].agg)
        /\ procs' = [procs EXCEPT ![w].pc = "done", ![w].status = 200]
        /\ UNCHANGED <<ratings, writes, last, run>>

NextWorkers ==
    \/ CreateCheck
    \/ CreateInsert
    \/ UpdateCommit
    \/ DeleteCommit
    \/ ReadAggregate
    \/ WriteStats

SpecWorkers == Init /\ [][NextWorkers]_vars

----------------------------------------------------------------------------
\* Collaborative requests over a store that has outgrown one page of the
\* rating query: more movies than DefaultPageLimit were created through
\* POST /movies, and load_sample_ratings, which adds 3 to 7 ratings per user
\* each time it runs, has run until users 1 and 2 rated all of them, or all
\* but the last.

PagedMovies == 1..(DefaultPageLimit + 1)

PagedRaters == {1, 2}

PagedRatings(held) ==
    UNION {{[id |-> (u - 1) * (DefaultPageLimit + 1) + m, user_id |-> u,
             movie_id |-> m, rating |-> SeedValue(u, m)] : m \in 1..held[u]}
           : u \in PagedRaters}

InitPaged ==
    /\ \E held \in [PagedRaters -> {DefaultPageLimit, DefaultPageLimit + 1}] :
          ratings = PagedRatings(held)
    /\ movies = [m \in PagedMovies |->
                    [average_rating |-> FracZero, total_ratings |-> 0]]
    /\ writes = 0
    /\ last = NoRequest
    /\ run = NoRun
    /\ procs = NoProcs

NextPaged ==
    \/ Collaborative
    \/ Reply

SpecPaged == InitPaged /\ [][NextPaged]_vars

----------------------------------------------------------------------------
\* create_user_movie_matrix applied to the store as rating deletes leave it.

MatrixBuild ==
    /\ Idle
    /\ \E built \in indexed_user_movie_matrix(ratings) :
          last' = Response("matrix", 200, NULL, NULL, 0, built, "normal")
    /\ UNCHANGED <<ratings, movies, writes, run, procs>>

NextMatrix ==
    \/ MatrixBuild
    \/ DeleteRating
    \/ Reply

SpecMatrix == Init /\ [][NextMatrix]_vars

----------------------------------------------------------------------------
\* Content requests over a catalog that has outgrown one page of get_movies:
\* the sample ratings were loaded when the catalog held one movie per user's
\* choice (load_sample_ratings rates min(num_ratings, len(movies)) movies),
\* and movies were created through POST /movies afterwards.

LargeCatalogRatings ==
    {[id |-> u, user_id |-> u, movie_id |-> u, rating |-> SeedValue(u, u)]
       : u \in PagedRaters}

InitLargeCatalog ==
    /\ ratings = LargeCatalogRatings
    /\ movies = [m \in PagedMovies |->
                    [average_rating |-> FracZero, total_ratings |-> 0]]
    /\ writes = 0
    /\ last = NoRequest
    /\ run = NoRun
    /\ procs = NoProcs

\* One content-based request, not repeated.
ContentBasedOnce == Idle /\ ContentBased

\* One similar-movies request, not repeated.
SimilarMoviesOnce == Idle /\ SimilarMovies

NextLargeCatalog ==
    \/ ContentBasedOnce
    \/ SimilarMoviesOnce
    \/ Reply

SpecLargeCatalog == InitLargeCatalog /\ [][NextLargeCatalog]_vars

----------------------------------------------------------------------------
\* The write endpoints of ratings and movies, one request at a time.

NextCatalog ==
    \/ CreateRating
    \/ UpdateRating
    \/ DeleteRating
    \/ CreateMovie
    \/ UpdateMovie
    \/ DeleteMovie
    \/ Reply

SpecCatalog == Init /\ [][NextCatalog]_vars

----------------------------------------------------------------------------
\* A recommendation call served by one worker while other workers delete
\* ratings and movies: the ranking is computed from what the call read
\* first, the per-id lookups find the catalog as it is when they run.

\* get_user_ratings(db, user_id) and create_movie_features(db) have run.
ContentBasedBegin ==
    /\ Idle
    /\ run.pc = "idle"
    /\ \E user_id \in Users, limit \in Limits :
          run' = [NoRun EXCEPT !.pc = "features", !.user = user_id, !.n = limit,
                               !.rt0 = ratings, !.mv0 = movies]
    /\ UNCHANGED <<ratings, movies, writes, last, procs>>

\* The rest of the call: the similarities, the sort, the lookups.
ContentBasedFinish ==
    /\ Idle
    /\ run.pc = "features"
    /\ \E out \in content_based_queries(run.rt0, run.mv0, movies, run.user, run.n,
                                        "none") :
          last' = [Response("content_based", StatusOf(out), run.user, NULL, run.n,
                            out.result, out.path)
                      EXCEPT !.fault = out.fault]
    /\ run' = [run EXCEPT !.pc = "done"]
    /\ UNCHANGED <<ratings, movies, writes, procs>>

NextLookup ==
    \/ CollaborativeBegin
    \/ CollaborativeFinish
    \/ ContentBasedBegin
    \/ ContentBasedFinish
    \/ DeleteRating
    \/ DeleteMovie
    \/ Reply

SpecLookup == Init /\ [][NextLookup]_vars

----------------------------------------------------------------------------
\* Claims.

WriteOps == {"create_rating", "update_rating", "delete_rating"}

StoreUnchanged == ratings' = ratings /\ movies' = movies

MovieRows(m) == {r \in ratings : r.movie_id = m}

\* C1: after any sequence of create, update and delete requests served one at
\* a time, no two rows of the rating store have the same (user_id, movie_id);
\* and a create request for a pair that already has a rating is rejected and
\* changes nothing in the store.
C1_OneRatingPerPair ==
    /\ [](\A r1, r2 \in ratings :
            r1.user_id = r2.user_id /\ r1.movie_id = r2.movie_id => r1 = r2)
    /\ [][(/\ Idle
           /\ last'.op = "create_rating"
           /\ \E r \in ratings : r.user_id = last'.user /\ r.movie_id = last'.arg)
          => (last'.status # 200 /\ StoreUnchanged)]_vars

\* A create for an existing pair was rejected with 400 after the store had
\* already been written by an update or a delete.
C1_Witness ==
    /\ last.op = "create_rating"
    /\ last.status = 400
    /\ writes > 0
    /\ \E r \in ratings : r.user_id = last.user /\ r.movie_id = last.arg

\* C2: when a rating write has returned, the affected movie's total_ratings is
\* the number of stored ratings of that movie and its average_rating is their
\* mean, 0.0 when there are none.
C2_StatsAfterWrite ==
    (last.op \in WriteOps /\ last.status = 200) =>
        LET m == last.result[1]
            rows == MovieRows(m)
            count == Cardinality(rows)
            sum == SumOver(rows, [r \in rows |-> r.rating])
            avg == movies[m].average_rating
        IN /\ movies[m].total_ratings = count
           /\ avg.den > 0
           /\ IF count = 0 THEN avg.num = 0
              ELSE avg.num * count = sum * avg.den

\* An update returned for a movie that has two ratings whose mean is not a
\* whole number.
C2_Witness ==
    /\ last.op = "update_rating"
    /\ last.status = 200
    /\ Cardinality(MovieRows(last.result[1])) = 2
    /\ movies[last.result[1]].average_rating.den = 2

\* C3: every stored rating has a value v with 1.0 <= v <= 5.0, and a create or
\* update request that carries a value outside that range is rejected and
\* changes nothing in the store.
C3_RatingRange ==
    /\ [](\A r \in ratings : MinRating <= r.rating /\ r.rating <= MaxRating)
    /\ [][(/\ Idle
           /\ last'.op \in {"create_rating", "update_rating"}
           /\ last'.path = "set"
           /\ (last'.n < MinRating \/ last'.n > MaxRating))
          => (last'.status # 200 /\ StoreUnchanged)]_vars

\* An update to 6.0 by the rating's owner was rejected, after a committed write.
C3_Witness ==
    /\ last.op = "update_rating"
    /\ last.path = "set"
    /\ last.n = MaxRating + 1
    /\ last.status = 422
    /\ writes > 0
    /\ \E r \in ratings : r.id = last.arg /\ r.user_id = last.user


RecOps == {"top_rated", "collaborative", "content_based", "similar", "hybrid"}

RatingCount(u) == Cardinality({r \in ratings : r.user_id = u})

Rated(m) == movies[m].total_ratings > 0

\* average_rating of a <= average_rating of b
AvgLeq(a, b) ==
    movies[a].average_rating.num * movies[b].average_rating.den
        <= movies[b].average_rating.num * movies[a].average_rating.den

\* C4: for a user with fewer than 5 ratings (none included), the collaborative
\* recommendations are a sequence that get_top_rated_movies returns for the
\* same limit on the same store.
C4_ColdStartIsTopRated ==
    (last.op = "collaborative" /\ RatingCount(last.user) < MinRatingsPerUser)
        => last.result \in get_top_rated_movies(movies, last.n)

\* A user with some ratings, but fewer than 5, got a non-empty popularity list.
C4_Witness ==
    /\ last.op = "collaborative"
    /\ last.path = "coldstart"
    /\ RatingCount(last.user) > 0
    /\ RatingCount(last.user) < MinRatingsPerUser
    /\ last.result # <<>>

\* C5: get_similar_movies for a movie id that is not in the catalog returns the
\* empty sequence, whatever the limit.
C5_UnknownMovieEmpty ==
    (last.op = "similar" /\ last.arg \notin DOMAIN movies) => last.result = <<>>

\* An unknown movie was asked for with a positive limit while the popularity
\* list for that limit is not empty.
C5_Witness ==
    /\ last.op = "similar"
    /\ last.arg \notin DOMAIN movies
    /\ last.path = "unknown"
    /\ last.n > 0
    /\ <<>> \notin get_top_rated_movies(movies, last.n)

\* C6: in a hybrid blend, a movie of both lists scores 0.6 * (1 - i/n) for its
\* place i in the n collaborative items plus 0.4 * (1 - j/k) for its place j in
\* the k content items, a movie of one list scores that list's term alone, and
\* no movie is returned twice.
C6_HybridAdditivity ==
    (last.op = "hybrid" /\ last.path = "normal") =>
        LET c == last.collab
            k == last.content
            score == HybridScore(c, k)
            i(m) == (CHOOSE p \in 1..Len(c) : c[p] = m) - 1
            j(m) == (CHOOSE p \in 1..Len(k) : k[p] = m) - 1
            \* the two terms over the common denominator 10 * n * k
            cden == IF Len(c) = 0 THEN 1 ELSE Len(c)
            kden == IF Len(k) = 0 THEN 1 ELSE Len(k)
            cnum(m) == IF m \in Range(c) THEN CollabWeight * (Len(c) - i(m)) * kden ELSE 0
            knum(m) == IF m \in Range(k) THEN ContentWeight * (Len(k) - j(m)) * cden ELSE 0
        IN /\ DOMAIN score = Range(c) \cup Range(k)
           /\ \A m \in DOMAIN score :
                score[m].num * (WeightScale * cden * kden)
                    = (cnum(m) + knum(m)) * score[m].den
           /\ \A p, q \in 1..Len(last.result) :
                p # q => last.result[p] # last.result[q]

\* A blend in which one movie is in both lists and another in one list only.
C6_Witness ==
    /\ last.op = "hybrid"
    /\ last.path = "normal"
    /\ Range(last.collab) \cap Range(last.content) # {}
    /\ Range(last.collab) # Range(last.content)
    /\ Len(last.result) > 1

\* C7: on an unchanged store, a recommendation request repeated with the same
\* arguments (neither call hitting a failure) returns the same sequence.
C7_Deterministic ==
    [][(/\ last.op \in RecOps
        /\ last'.op = last.op
        /\ last'.user = last.user /\ last'.arg = last.arg /\ last'.n = last.n
        /\ ~last.fault /\ ~last'.fault
        /\ StoreUnchanged)
       => last'.result = last.result]_vars

\* C8: with limit = 0 every recommendation operation answers (it does not
\* raise) with the empty sequence, on its normal path and on its fallbacks.
C8_LimitZeroEmpty ==
    (last.op \in RecOps /\ last.n = 0) => (last.status = 200 /\ last.result = <<>>)

\* A cold-start call with limit 0 while some movie qualifies as top rated.
C8_Witness ==
    /\ last.op = "collaborative"
    /\ last.path = "coldstart"
    /\ last.n = 0
    /\ \E m \in DOMAIN movies : Rated(m)

\* C9: two movies of a get_top_rated_movies result that have the same
\* average_rating come in ascending id order.
C9_TiesAscendingId ==
    last.op = "top_rated" =>
        \A p, q \in 1..Len(last.result) :
            (p < q /\ AvgLeq(last.result[p], last.result[q])
                   /\ AvgLeq(last.result[q], last.result[p]))
                => last.result[p] < last.result[q]

\* C10: get_top_rated_movies(limit) returns only movies with total_ratings > 0,
\* in non-increasing average_rating order, min(limit, number of such movies)
\* of them, and no such movie left out has a higher average than one returned.
C10_TopRated ==
    last.op = "top_rated" =>
        LET res == last.result
            rated == {m \in DOMAIN movies : Rated(m)}
        IN /\ \A p \in 1..Len(res) : res[p] \in rated
           /\ \A p, q \in 1..Len(res) : p < q => AvgLeq(res[q], res[p])
           /\ Len(res) = Min(last.n, Cardinality(rated))
           /\ \A m \in rated \ Range(res) : \A x \in Range(res) : AvgLeq(m, x)

\* One movie was returned and a rated movie with a lower average was left out,
\* next to movies with no rating.
C10_Witness ==
    /\ last.op = "top_rated"
    /\ last.n = 1
    /\ Len(last.result) = 1
    /\ \E m \in DOMAIN movies :
          Rated(m) /\ m # last.result[1] /\ ~AvgLeq(last.result[1], m)
    /\ \E m \in DOMAIN movies : ~Rated(m)

\* C12 as stated: get_collaborative_recommendations never raises, and after
\* any failure inside it the answer is get_top_rated_movies(limit).
C12_NeverRaises ==
    last.op = "collaborative" =>
        /\ last.status = 200
        /\ last.fault => last.result \in get_top_rated_movies(movies, last.n)

\* C12 amended: a failure inside get_collaborative_recommendations is answered
\* with get_top_rated_movies(limit) whenever that query itself answers; the
\* call raises to its caller exactly when the store is down for the handler's
\* query too.
C12_RaisesOnlyWhenFallbackFails ==
    last.op = "collaborative" =>
        /\ (last.status # 200) <=> (last.cause = "down")
        /\ (last.fault /\ last.cause # "down")
              => last.result \in get_top_rated_movies(movies, last.n)

\* A numeric step failed for a user the matrix holds, and the answer is a
\* non-empty popularity list.
C12_Witness ==
    /\ last.op = "collaborative"
    /\ last.cause = "compute"
    /\ RatingCount(last.user) >= MinRatingsPerUser
    /\ last.status = 200
    /\ last.result # <<>>

\* C13: when min(50, min(rows, cols) - 1) < 1 for the matrix of the eligible
\* ratings, get_collaborative_recommendations for a user of that matrix answers
\* (it does not raise) with get_top_rated_movies(limit).
C13_DegenerateFallsBack ==
    LET M == create_user_movie_matrix(ratings)
        k == Min(MaxComponents, Min(Cardinality(M.users), Cardinality(M.movies)) - 1)
    IN (last.op = "collaborative" /\ last.cause = "none"
            /\ last.user \in M.users /\ k < 1)
          => (last.status = 200
              /\ last.result \in get_top_rated_movies(movies, last.n))

\* The only eligible user asked, with a positive limit, while some movie
\* qualifies as top rated.
C13_Witness ==
    /\ last.op = "collaborative"
    /\ last.path = "degenerate"
    /\ Cardinality(create_user_movie_matrix(ratings).users) = 1
    /\ last.n > 0
    /\ last.result # <<>>

\* C14: when a numeric step fails, get_similar_movies answers the empty
\* sequence and get_content_based_recommendations answers
\* get_top_rated_movies(limit), never the other way round.
C14_FailureOutcomes ==
    /\ (last.op = "similar" /\ last.cause = "compute")
          => (last.status = 200 /\ last.result = <<>>)
    /\ (last.op = "content_based" /\ last.cause = "compute")
          => (last.status = 200
              /\ last.result \in get_top_rated_movies(movies, last.n))

\* A failed content-based call of a user with ratings answered a non-empty
\* popularity list, which a failed similar-movies call never does.
C14_Witness ==
    /\ last.op = "content_based"
    /\ last.cause = "compute"
    /\ RatingCount(last.user) > 0
    /\ last.result # <<>>

\* C15: when a step of the blend fails, get_hybrid_recommendations(user, limit)
\* answers a sequence that get_collaborative_recommendations(user, limit)
\* returns on the same store.
C15_HybridDegradesToCollaborative ==
    (last.op = "hybrid" /\ last.cause = "compute") =>
        /\ last.status = 200
        /\ last.result \in
              {c.result : c \in get_collaborative_recommendations(
                                    ratings, movies, last.user, last.n, "none", last.sim)}

\* The blend failed for a user on the collaborative normal path: the answer
\* has `limit` items although more are predicted, and is not a popularity list.
C15_Witness ==
    /\ last.op = "hybrid"
    /\ last.cause = "compute"
    /\ last.n > 0
    /\ Len(last.result) = last.n
    /\ last.result \notin get_top_rated_movies(movies, last.n)
    /\ \E c \in get_collaborative_recommendations(
                    ratings, movies, last.user, last.n * 2, "none", last.sim) :
          Len(c.result) > last.n

\* C16: a recommendation call during which the rating store or the catalog
\* fails reports an error to its caller; it does not answer with a fallback
\* list or an empty list.
C16_StoreFailureReported ==
    (last.op \in RecOps /\ last.cause \in StoreFaults) => last.status # 200

\* C17: the result of a get_collaborative_recommendations call during which
\* ratings were written is a result the call returns on one of the states the
\* store was in during the call (for some similarities computed on that state).
C17_SingleSnapshot ==
    run.pc = "done" =>
        \E S \in run.seen :
            \E sim \in SimilarityChoices(S.ratings, run.user) :
                \E c \in get_collaborative_recommendations(
                             S.ratings, S.movies, run.user, run.n, "none", sim) :
                    c.result = last.result

\* C18: no recommendation request changes the rating table, the catalog or a
\* movie's stats, whatever path it takes; and a collaborative call between
\* whose queries other recommendation requests were served returns a result
\* that the call returns when it runs alone on the same store.
C18_ReadsChangeNothing ==
    /\ [][last'.op \in RecOps
            => (ratings' = ratings /\ movies' = movies /\ writes' = writes)]_vars
    /\ [](run.pc = "done" =>
            \E c \in get_collaborative_recommendations(
                         ratings, movies, run.user, run.n, "none", last.sim) :
                c.result = last.result)

\* A collaborative call finished on its normal path with a non-empty result
\* after another request was served between its queries, on a store whose
\* popularity list is not empty.
C18_Witness ==
    /\ run.pc = "done"
    /\ run.between
    /\ last.path = "normal"
    /\ last.result # <<>>
    /\ \E m \in DOMAIN movies : Rated(m)

----------------------------------------------------------------------------
----------------------------------------------------------------------------
\* C20: once all concurrent writers have finished, the stats of every movie
\* one of them wrote equal the count and the mean of the stored ratings of
\* that movie.
C20_StatsAfterQuiescence ==
    (\A w \in Workers : procs[w].pc \in {"idle", "done"}) =>
        \A w \in Workers :
            (procs[w].pc = "done" /\ procs[w].status = 200) =>
                LET m == procs[w].movie
                    rows == {r \in ratings : r.movie_id = m}
                    total == Cardinality(rows)
                    sum == SumOver(rows, [r \in rows |-> r.rating])
                IN /\ movies[m].total_ratings = total
                   /\ movies[m].average_rating.num * total
                        = sum * movies[m].average_rating.den

----------------------------------------------------------------------------
\* C11: on the non-fallback path neither get_collaborative_recommendations
\* nor get_content_based_recommendations returns a movie the target user has
\* a stored rating for, however many ratings the user holds.
C11_RatedNeverRecommended ==
    (last.op \in {"collaborative", "content_based"} /\ last.path = "normal") =>
        \A i \in 1..Len(last.result) :
            get_user_rating_for_movie(ratings, last.user, last.result[i]) = {}

----------------------------------------------------------------------------
\* C27: a create request that passes validation and the existence check
\* stores a rating owned by the caller, for the movie and with the value of
\* the request; no stored rating has a missing or a different owner.
C27_CreatedRatingOwnedByCaller ==
    /\ \A r \in ratings : r.user_id \in Users
    /\ (last.op = "create_rating" /\ last.status \notin {400, 422}) =>
          \E r \in ratings : /\ r.user_id = last.user
                             /\ r.movie_id = last.arg
                             /\ r.rating = last.n

----------------------------------------------------------------------------
\* C28: an update or delete request whose body passed validation is rejected
\* with 404 when no rating has the id and with 403 when the rating belongs to
\* another user, and in both cases ratings and every movie's stats stay as
\* they were; a request that changes the ratings is made by the owner of the
\* rating it names.
C28_OnlyOwnerWrites ==
    [][(/\ Idle
        /\ last'.op \in {"update_rating", "delete_rating"}
        /\ (last'.path = "set" => ValidRating(last'.n)))
       => LET named == {r \in ratings : r.id = last'.arg}
          IN /\ named = {} => (last'.status = 404 /\ StoreUnchanged)
             /\ (\E r \in named : r.user_id # last'.user)
                   => (last'.status = 403 /\ StoreUnchanged)
             /\ ratings' # ratings => \A r \in named : r.user_id = last'.user]_vars

\* An update of another user's rating was rejected with 403 after the store
\* had been written.
C28_Witness ==
    /\ last.op = "update_rating"
    /\ last.status = 403
    /\ last.path = "set"
    /\ ValidRating(last.n)
    /\ writes > 0
    /\ \E r \in ratings : r.id = last.arg /\ r.user_id # last.user

----------------------------------------------------------------------------
\* The other eligible users who rated movie m, for the user of the request.
C23_Raters(m) ==
    {o \in DOMAIN last.sim : \E r \in ratings : r.user_id = o /\ r.movie_id = m}

\* sum of the similarities of the raters of m
C23_Weight(m) == SumOver(C23_Raters(m), [o \in C23_Raters(m) |-> last.sim[o]])

\* sum of similarity * rating over the raters of m
C23_Weighted(m) ==
    SumOver(C23_Raters(m),
            [o \in C23_Raters(m) |->
                last.sim[o] * (CHOOSE r \in ratings :
                                  r.user_id = o /\ r.movie_id = m).rating])

\* movies the user has not rated that have a rater and a positive weight
C23_Candidates ==
    {m \in Movies : /\ get_user_rating_for_movie(ratings, last.user, m) = {}
                    /\ C23_Raters(m) # {}
                    /\ C23_Weight(m) > 0}

\* predicted rating of a <= predicted rating of b, both weights positive
C23_Leq(a, b) == C23_Weighted(a) * C23_Weight(b) <= C23_Weighted(b) * C23_Weight(a)

\* C23: on the normal path of get_collaborative_recommendations the movies
\* ranked are exactly the unrated movies that some other eligible user rated
\* and whose raters' similarities sum to more than 0, each valued
\* sum(similarity * rating) / sum(similarity), for every assignment of
\* similarities, negative ones included: the result is the top `limit` of
\* them by that value, so no movie with a zero or negative sum is in it.
C23_CandidatesAndPredictions ==
    (last.op = "collaborative" /\ last.path = "normal") =>
        LET res == last.result
        IN /\ Range(res) \subseteq C23_Candidates
           /\ Len(res) = Min(last.n, Cardinality(C23_Candidates))
           /\ \A i, j \in 1..Len(res) : i < j =>
                 (res[i] # res[j] /\ C23_Leq(res[j], res[i]))
           /\ \A m \in C23_Candidates \ Range(res) :
                 \A i \in 1..Len(res) : C23_Leq(m, res[i])

\* A call on the normal path met an unrated movie whose two raters have
\* similarities 1 and -1, a sum of 0, and did not return it.
C23_Witness ==
    /\ last.op = "collaborative"
    /\ last.path = "normal"
    /\ \E m \in Movies :
          /\ get_user_rating_for_movie(ratings, last.user, m) = {}
          /\ \E o, p \in C23_Raters(m) : last.sim[o] < 0 /\ last.sim[p] > 0
          /\ C23_Weight(m) = 0
          /\ m \notin Range(last.result)

----------------------------------------------------------------------------
\* C26: the rows of the matrix create_user_movie_matrix returns are exactly
\* the users with at least MinRatingsPerUser ratings and its columns exactly
\* the movies one of them rated; user_to_idx and movie_to_idx are bijections
\* onto 0..rows-1 and 0..cols-1; the cell of user u and movie m holds u's
\* stored rating of m, and 0 exactly when u has not rated m.
C26_MatrixShape ==
    last.op = "matrix" =>
        LET R == last.result
            eligible == {u \in Users : RatingCount(u) >= MinRatingsPerUser}
            cols == {r.movie_id : r \in {q \in ratings : q.user_id \in eligible}}
            rows_idx == 0..(Cardinality(eligible) - 1)
            cols_idx == 0..(Cardinality(cols) - 1)
        IN /\ DOMAIN R.user_to_idx = eligible
           /\ DOMAIN R.movie_to_idx = cols
           /\ {R.user_to_idx[u] : u \in eligible} = rows_idx
           /\ {R.movie_to_idx[m] : m \in cols} = cols_idx
           /\ DOMAIN R.matrix = rows_idx
           /\ \A i \in rows_idx : DOMAIN R.matrix[i] = cols_idx
           /\ \A u \in eligible, m \in cols :
                 LET cell == R.matrix[R.user_to_idx[u]][R.movie_to_idx[m]]
                     own == get_user_rating_for_movie(ratings, u, m)
                 IN /\ own # {} => \E r \in own : cell = r.rating
                    /\ cell = 0 <=> own = {}

\* A matrix was built while one user with ratings is below the threshold,
\* two users are in it, and a cell is 0.
C26_Witness ==
    /\ last.op = "matrix"
    /\ writes > 0
    /\ \E u \in Users : RatingCount(u) > 0 /\ RatingCount(u) < MinRatingsPerUser
    /\ Cardinality(DOMAIN last.result.user_to_idx) = 2
    /\ \E i \in DOMAIN last.result.matrix :
          \E j \in DOMAIN last.result.matrix[i] : last.result.matrix[i][j] = 0

----------------------------------------------------------------------------
\* The combined score of movie m in the blend of the response, as a numerator
\* over the common denominator 10 * n * k of the two list lengths:
\* 0.6 * (1 - i/n) for 0-indexed place i of n, plus 0.4 * (1 - j/k).
C24_Score(m) ==
    LET c == last.collab
        k == last.content
        cden == IF Len(c) = 0 THEN 1 ELSE Len(c)
        kden == IF Len(k) = 0 THEN 1 ELSE Len(k)
        i == (CHOOSE p \in 1..Len(c) : c[p] = m) - 1
        j == (CHOOSE p \in 1..Len(k) : k[p] = m) - 1
    IN (IF m \in Range(c) THEN CollabWeight * (Len(c) - i) * kden ELSE 0)
       + (IF m \in Range(k) THEN ContentWeight * (Len(k) - j) * cden ELSE 0)

\* C24: a hybrid call asks each predictor for 2 * limit items, and returns at
\* most `limit` movies of the merged set, in non-increasing order of the
\* combined rank-decaying score, no omitted movie scoring higher than a
\* returned one.
C24_HybridTopByScore ==
    (last.op = "hybrid" /\ last.path = "normal") =>
        LET merged == Range(last.collab) \cup Range(last.content)
            res == last.result
        IN /\ \E c \in get_collaborative_recommendations(
                           ratings, movies, last.user, 2 * last.n, "none", last.sim) :
                 c.result = last.collab
           /\ \E k \in get_content_based_recommendations(
                           ratings, movies, last.user, 2 * last.n, "none") :
                 k.result = last.content
           /\ Range(res) \subseteq merged
           /\ Len(res) = Min(last.n, Cardinality(merged))
           /\ \A p, q \in 1..Len(res) :
                 p < q => C24_Score(res[p]) >= C24_Score(res[q])
           /\ \A m \in merged \ Range(res) :
                 \A p \in 1..Len(res) : C24_Score(res[p]) >= C24_Score(m)

\* A blend that left a movie out and whose first movie is not the first of
\* the collaborative list: the sort moved a movie of both lists ahead.
C24_Witness ==
    /\ last.op = "hybrid"
    /\ last.path = "normal"
    /\ last.collab # <<>>
    /\ last.result # <<>>
    /\ last.result[1] # last.collab[1]
    /\ (Range(last.collab) \cup Range(last.content)) \ Range(last.result) # {}

----------------------------------------------------------------------------
\* C21: when the user has ratings and the profile's total weight is 0 (none
\* of the rated movies has a row in the feature matrix), the content-based
\* call returns a sequence get_top_rated_movies returns for the same limit.
C21_ZeroProfileFallsBack ==
    (last.op = "content_based" /\ last.path = "zero_profile") =>
        \E r \in get_top_rated_movies(movies, last.n) : last.result = r

----------------------------------------------------------------------------
\* C22: get_similar_movies answers "unknown movie" only for an id that is
\* not in the catalog, whatever the size of the catalog.
C22_UnknownOnlyIfNotInCatalog ==
    (last.op = "similar" /\ last.path = "unknown") => last.arg \notin DOMAIN movies

----------------------------------------------------------------------------
\* C29: after any sequence of movie and rating writes every stored rating is
\* of a movie in the catalog, and a delete of a movie that has returned has
\* left no rating of that movie.
C29_RatingsReferenceCatalog ==
    /\ \A r \in ratings : r.movie_id \in DOMAIN movies
    /\ (last.op = "delete_movie" /\ last.status = 200) =>
          \A r \in ratings : r.movie_id # last.arg

\* A movie whose only rating had been deleted was deleted, while other
\* ratings remain.
C29_Witness ==
    /\ last.op = "delete_movie"
    /\ last.status = 200
    /\ last.arg \notin DOMAIN movies
    /\ writes = 2
    /\ ratings # {}

----------------------------------------------------------------------------
\* The rankings the finished call may have computed: its results had every
\* ranked movie still been there at lookup time.
C25_Rankings ==
    IF last.op = "collaborative"
    THEN {c.result : c \in {d \in collaborative_queries(run.rt0, ratings, run.mv0,
                                                       run.user, run.n, "none", last.sim)
                              : d.path = last.path}}
    ELSE {c.result : c \in {d \in content_based_queries(run.rt0, run.mv0, run.mv0,
                                                       run.user, run.n, "none")
                              : d.path = last.path}}

\* C25: a collaborative or content-based call that ranked movies and then
\* looked them up while movies were being deleted returns, with no error, its
\* ranking without the movies missing at lookup time: in ranking order, only
\* movies of the catalog, nothing put in the place of a dropped id.
C25_DeletedIdsDropped ==
    (run.pc = "done" /\ last.path = "normal") =>
        /\ last.status = 200
        /\ Range(last.result) \subseteq DOMAIN movies
        /\ \E ranking \in C25_Rankings :
              last.result = SelectSeq(ranking, LAMBDA m : m \in DOMAIN movies)

\* A content-based call for one movie ranked a movie that was deleted before
\* the lookup and returned nothing, though other candidates were ranked lower.
C25_Witness ==
    /\ run.pc = "done"
    /\ last.op = "content_based"
    /\ last.path = "normal"
    /\ run.n = 1
    /\ last.result = <<>>
    /\ \E ranking \in C25_Rankings : Len(ranking) = 1 /\ ranking[1] \notin DOMAIN movies
    /\ \E m \in DOMAIN movies :
          \A r \in run.rt0 : r.user_id = run.user => r.movie_id # m

====
